---- MODULE Spec2Model ----
(***************************************************************************)
(* Model of the retry engines of go-gcm (sender.go):                       *)
(*   SendMulticastWithRetries  - specification Spec                        *)
(*   SendWithRetries           - specification SpecSingle                  *)
(* The transport (sendRaw after its argument check) is the environment:    *)
(* every call of it returns one reply drawn from a small set.              *)
(***************************************************************************)
EXTENDS Integers, Sequences, FiniteSets, TLC

\* ---------------------------------------------------------------- bounds
\* longest original recipient list
MaxLen == 2
\* largest retry budget a caller passes
MaxRetries == 2
\* largest retry budget a caller passes to SendWithRetries: enough sleeps for the
\* backoff to reach MaxBackoffDelay and stay there
MaxSingleRetries == 12
\* the largest retry budget of a SendWithRetries call whose sleeps are added up
MaxSleepRetries == 28

\* ------------------------------------------------------ program constants
BackoffInitialDelay == 1000
MaxBackoffDelay == 1024000
MaxTimeToLive == 2419200
StatusInternalServerError == 500
StatusUpperBound == 600

ErrorInvalidRegistration == "InvalidRegistration"
ErrorUnavailable == "Unavailable"
ErrorInternalServerError == "InternalServerError"
ErrorTopicsMessageRateExceeded == "TopicsMessageRateExceeded"

\* ------------------------------------------------------------ input sets
\* registration ids a caller may pass
RegIDs == {"1", "2"}
\* HTTP status codes of a failed round (the boundaries of the 5xx range)
StatusCodes == {400, 500, 599, 600}
\* TimeToLive values of a message (the boundaries of the accepted range)
TimeToLives == {-1, 0, 2419200, 2419201}

\* the prefix of a topic target; a target is a sequence of the pieces of its string
TopicPrefix == <<"/topics/">>
\* the to argument of SendWithRetries: empty, a topic, a registration id or
\* notification key, and a target that holds the prefix elsewhere than at its start
Targets == {<<>>, TopicPrefix \o <<"global">>, <<"1">>, <<"group", "/topics/">>}

\* --------------------------------------------------------------- values
\* error values: kind "nil" is Go's nil error
NoError == [kind |-> "nil", statusCode |-> 0, text |-> ""]
validationError(text) == [kind |-> "validation", statusCode |-> 0, text |-> text]
httpError(statusCode) == [kind |-> "http", statusCode |-> statusCode, text |-> ""]
otherError(text) == [kind |-> "other", statusCode |-> 0, text |-> text]

\* response.go: type result; its zero value is what a Go map returns for a
\* key it does not hold
result(MessageID, RegistrationID, Err) ==
    [MessageID |-> MessageID, RegistrationID |-> RegistrationID, Err |-> Err]
ZeroResult == result("", "", "")

\* the message id the server gives a message it accepts in round k
messageID(k) == "id" \o ToString(k)

\* the per-recipient outcomes a response of round k may carry: delivered, delivered
\* with a canonical registration id, failed with an error code, or failed with an
\* error code and a registration id
ResultSet(k) ==
    { result(messageID(k), "", ""), result(messageID(k), "canon", ""),
      result("", "", ErrorUnavailable), result("", "", ErrorInternalServerError),
      result("", "", ErrorInvalidRegistration),
      result("", "canon", ErrorInvalidRegistration) }

\* type Result (exported): a pointer to it is a sequence of length 0 (nil) or 1
Result(MessageID, CanonicalRegistrationID, Error) ==
    [MessageID |-> MessageID, CanonicalRegistrationID |-> CanonicalRegistrationID,
     Error |-> Error, Success |-> 0, Failure |-> 0, FailedRegistrationIDs |-> <<>>]

\* new(MulticastResult)
NewMulticastResult ==
    [Success |-> 0, Failure |-> 0, CanonicalIds |-> 0, MulticastID |-> 0,
     Results |-> <<>>, RetryMulticastIDs |-> <<>>]

\* a message: nil, or one with its TimeToLive (the only field the code reads)
Messages ==
    {[isNil |-> TRUE, TimeToLive |-> 0]}
        \cup {[isNil |-> FALSE, TimeToLive |-> t] : t \in TimeToLives}

\* sequences over S of length lo..hi
SeqsOf(S, lo, hi) == UNION {[1..n -> S] : n \in lo..hi}

\* responses that carry one outcome more than the n recipients sent
OverlongResults(n, k) == {[i \in 1..(n + 1) |-> r] : r \in ResultSet(k)}

\* what one sendRaw call of SendMulticastWithRetries returns when n recipients were
\* sent in round k: an httpError, another error (client.Do, ReadAll, json), or a
\* response with MulticastID and Results
MulticastReplies(n, k) ==
    {[err |-> httpError(c), MulticastID |-> 0, Results |-> <<>>] : c \in StatusCodes}
        \cup {[err |-> otherError("transport"), MulticastID |-> 0, Results |-> <<>>]}
        \cup {[err |-> NoError, MulticastID |-> m, Results |-> rs] :
                 m \in {0, k},
                 rs \in SeqsOf(ResultSet(k), 0, n) \cup OverlongResults(n, k)}
RepliesFor == [n \in 0..MaxLen, k \in 1..(MaxRetries + 2) |-> MulticastReplies(n, k)]

\* a response body (response.go: type response) as SendNoRetry reads it; ResultsNil
\* tells a body without "results" from one with an empty list
response(ResultsNil, Results, MessageID, Err, Success, Failure, FailedRegistrationIDs) ==
    [err |-> NoError, ResultsNil |-> ResultsNil, Results |-> Results,
     MessageID |-> MessageID, Err |-> Err, Success |-> Success, Failure |-> Failure,
     FailedRegistrationIDs |-> FailedRegistrationIDs]
\* sendRaw returned no response but the error err
failed(err) == [response(TRUE, <<>>, 0, "", 0, 0, <<>>) EXCEPT !.err = err]

\* what one sendRaw call of SendNoRetry returns in attempt k: an error, a downstream
\* response with zero, one or two results, or a body without results that carries a
\* topic's message_id or error and a device group's counts
SingleReplies(k) ==
    {failed(httpError(c)) : c \in StatusCodes}
        \cup {failed(otherError("transport"))}
        \cup {response(FALSE, rs, 0, "", 0, 0, <<>>) :
                 rs \in {<<>>} \cup {<<r>> : r \in ResultSet(k)}
                            \cup {<<r, r>> : r \in ResultSet(k)}}
        \cup {response(TRUE, <<>>, id, e, g[1], g[2], g[3]) :
                 id \in {0, k},
                 e \in {"", ErrorUnavailable, ErrorInternalServerError,
                        ErrorTopicsMessageRateExceeded},
                 g \in {<<0, 0, <<>>>>, <<1, 1, <<"2">>>>, <<2, 0, <<>>>>}}
SingleRepliesFor == [k \in 1..(MaxSingleRetries + 3) |-> SingleReplies(k)]

\* the sendRaw replies of a call whose sleeps are added up: a 5xx status or a 400
SleepReplies == {failed(httpError(c)) : c \in {StatusInternalServerError, 400}}

VARIABLES
    APIKey,           \* Sender.APIKey
    Client,           \* Sender.Client: "nil" or "client"
    msg,              \* the *Message argument
    regIDs,           \* the regIDs argument (nil and empty are both <<>>)
    retriesArg,       \* the retries argument
    pc,               \* "call", "loop" (in sendRaw), "sleep" (in time.Sleep), "done",
                      \* "panic"
    registrationIds,  \* rawMsg.registrationIds
    results,          \* the map results: a function on the keys it holds
    finalResult,      \* *finalResult
    backoff,
    firstResponse,
    retries,          \* the local retries, decremented per round
    sleepTime,        \* the iteration's sleepTime while it sleeps, else 0
    ret,              \* the returned pair: [result |-> <<>> or <<r>>, err |-> e]
    sends,            \* history: the number of sendRaw calls made
    lastRound,        \* the iteration's round once sendRaw has returned:
                      \* <<[sent, reply]>>, the subset sent and resp, err; else <<>>
    recorded,         \* history: per registration id, the latest outcome a response
                      \* gave it
    redelivered,      \* history: per registration id delivered by a round after one
                      \* that gave it a retryable error, the message id and the
                      \* multicast id of that delivery
    to,               \* the to argument of SendWithRetries
    attempt,          \* the local attempt of SendWithRetries
    lastReply,        \* history: <<resp, err of sendRaw>> of the latest attempt of
                      \* SendWithRetries, <<>> before the first
    obtained,         \* history: an earlier attempt of this SendWithRetries call
                      \* returned a result
    slept,            \* history: <<the sum of the sleepTime of this SendWithRetries
                      \* call>>, <<>> for a call whose sleeps are not added up
    op,               \* the operation of the Sender that is called
    subsetArray,      \* the array rawMsg.registrationIds points into: "regIDs" (the
                      \* caller's) or "retryRegIds" (made by the loop); "" before
    responded,        \* history: some round of this call returned a response
    roundIDs,         \* history: per round sent, the MulticastID its response carried,
                      \* 0 for a round without a response or without one
    calls             \* the concurrent calls on the Sender: per call, its arguments
                      \* and locals (specification SpecConcurrent)

vars == <<APIKey, Client, msg, regIDs, retriesArg, pc, registrationIds, results,
          finalResult, backoff, firstResponse, retries, sleepTime, ret, sends,
          lastRound, recorded, redelivered, to, attempt, lastReply, op, subsetArray,
          roundIDs, responded, obtained, slept, calls>>

\* the variables SendMulticastWithRetries alone uses, and those SendWithRetries alone
\* uses
multicastVars == <<regIDs, registrationIds, results, finalResult, firstResponse,
                   retries, lastRound, recorded, redelivered, subsetArray, roundIDs,
                   responded>>
singleVars == <<to, attempt, lastReply, obtained, slept>>

\* ------------------------------------------------------------- functions
\* mutant of min: the first argument, whatever the second
min_first(x, y) == x

min(x, y) == IF x < y THEN x ELSE y

\* mutant of checkUnrecoverableErrors: the TimeToLive is not checked
checkUnrecoverableErrors_skipsTimeToLive(apiKey, target, ids, m, n) ==
    IF apiKey = "" THEN validationError("missing API key")
    ELSE IF m.isNil THEN validationError("message cannot be nil")
    ELSE IF target = <<>> /\ Len(ids) <= 0 THEN validationError("missing recipient(s)")
    ELSE IF n < 0 THEN validationError("retries cannot be negative")
    ELSE NoError

checkUnrecoverableErrors(apiKey, target, ids, m, n) ==
    IF apiKey = "" THEN validationError("missing API key")
    ELSE IF m.isNil THEN validationError("message cannot be nil")
    ELSE IF m.TimeToLive < 0 \/ m.TimeToLive > MaxTimeToLive
        THEN validationError("TimeToLive should be non-negative and at most 4 weeks")
    ELSE IF target = <<>> /\ Len(ids) <= 0 THEN validationError("missing recipient(s)")
    ELSE IF n < 0 THEN validationError("retries cannot be negative")
    ELSE NoError

\* lines 85-129: sendRaw checks its arguments, then returns what the transport
\* replied
sendRaw(apiKey, target, ids, m, reply) ==
    IF checkUnrecoverableErrors(apiKey, target, ids, m, 0) # NoError
       THEN [err |-> checkUnrecoverableErrors(apiKey, target, ids, m, 0),
             MulticastID |-> 0, Results |-> <<>>]
       ELSE reply

\* strings.HasPrefix
HasPrefix(str, prefix) ==
    Len(str) >= Len(prefix) /\ SubSeq(str, 1, Len(prefix)) = prefix

\* strconv.FormatInt(n, 10)
FormatInt(n) == ToString(n)

\* mutant of SendNoRetry: the error code of a downstream result and of a topic
\* response is not copied into the Result
SendNoRetry_dropsError(apiKey, m, target, transport) ==
    IF checkUnrecoverableErrors(apiKey, target, <<>>, m, 0) # NoError
       THEN [result |-> <<>>, sent |-> FALSE,
             err |-> checkUnrecoverableErrors(apiKey, target, <<>>, m, 0)]
    ELSE LET resp == sendRaw(apiKey, target, <<>>, m, transport)
         IN IF resp.err # NoError
               THEN [result |-> <<>>, sent |-> TRUE, err |-> resp.err]
            ELSE IF ~resp.ResultsNil
               THEN IF Len(resp.Results) # 1
                       THEN [result |-> <<>>, sent |-> TRUE,
                             err |-> otherError("invalid response.results")]
                       ELSE [result |-> <<Result(resp.Results[1].MessageID,
                                                 resp.Results[1].RegistrationID, "")>>,
                             sent |-> TRUE, err |-> NoError]
            ELSE IF HasPrefix(target, TopicPrefix)
               THEN IF resp.MessageID # 0
                       THEN [result |-> <<Result(FormatInt(resp.MessageID), "", "")>>,
                             sent |-> TRUE, err |-> NoError]
                    ELSE IF resp.Err # ""
                       THEN [result |-> <<Result("", "", "")>>,
                             sent |-> TRUE, err |-> NoError]
                    ELSE [result |-> <<>>, sent |-> TRUE,
                          err |-> otherError("expected message_id or error")]
            ELSE [result |-> <<[Result("", "", "") EXCEPT
                                   !.Success = resp.Success,
                                   !.Failure = resp.Failure,
                                   !.FailedRegistrationIDs = resp.FailedRegistrationIDs]>>,
                  sent |-> TRUE, err |-> NoError]

\* lines 135-170: SendNoRetry with the transport's reply; sent tells whether sendRaw
\* reached the transport
SendNoRetry(apiKey, m, target, transport) ==
    IF checkUnrecoverableErrors(apiKey, target, <<>>, m, 0) # NoError
       THEN [result |-> <<>>, sent |-> FALSE,
             err |-> checkUnrecoverableErrors(apiKey, target, <<>>, m, 0)]
    ELSE LET resp == sendRaw(apiKey, target, <<>>, m, transport)
         IN IF resp.err # NoError
               THEN [result |-> <<>>, sent |-> TRUE, err |-> resp.err]
            ELSE IF ~resp.ResultsNil
               THEN IF Len(resp.Results) # 1
                       THEN [result |-> <<>>, sent |-> TRUE,
                             err |-> otherError("invalid response.results")]
                       ELSE [result |-> <<Result(resp.Results[1].MessageID,
                                                 resp.Results[1].RegistrationID,
                                                 resp.Results[1].Err)>>,
                             sent |-> TRUE, err |-> NoError]
            ELSE IF HasPrefix(target, TopicPrefix)
               THEN IF resp.MessageID # 0
                       THEN [result |-> <<Result(FormatInt(resp.MessageID), "", "")>>,
                             sent |-> TRUE, err |-> NoError]
                    ELSE IF resp.Err # ""
                       THEN [result |-> <<Result("", "", resp.Err)>>,
                             sent |-> TRUE, err |-> NoError]
                    ELSE [result |-> <<>>, sent |-> TRUE,
                          err |-> otherError("expected message_id or error")]
            ELSE [result |-> <<[Result("", "", "") EXCEPT
                                   !.Success = resp.Success,
                                   !.Failure = resp.Failure,
                                   !.FailedRegistrationIDs = resp.FailedRegistrationIDs]>>,
                  sent |-> TRUE, err |-> NoError]

\* mutant of tryAgain: the attempts made are not held against the budget
tryAgain_ignoresBudget(n, budget, r) ==
    IF Len(r.result) = 1
          /\ r.result[1].Error \in {ErrorUnavailable, ErrorInternalServerError}
       THEN TRUE
    ELSE IF r.err # NoError
       THEN r.err.kind = "http" /\ r.err.statusCode >= StatusInternalServerError
                                /\ r.err.statusCode < StatusUpperBound
    ELSE FALSE

\* mutant of tryAgain: a result that reports failed members is tried again
tryAgain_retriesPartialFailure(n, budget, r) ==
    IF n <= budget
       THEN IF Len(r.result) = 1
                  /\ (r.result[1].Error \in {ErrorUnavailable, ErrorInternalServerError}
                        \/ r.result[1].Failure > 0)
               THEN TRUE
            ELSE IF r.err # NoError
               THEN r.err.kind = "http" /\ r.err.statusCode >= StatusInternalServerError
                                        /\ r.err.statusCode < StatusUpperBound
            ELSE FALSE
       ELSE FALSE

\* lines 183-192: tryAgain after attempt n returned r, with the budget retries
tryAgain(n, budget, r) ==
    IF n <= budget
       THEN IF Len(r.result) = 1
                  /\ r.result[1].Error \in {ErrorUnavailable, ErrorInternalServerError}
               THEN TRUE
            ELSE IF r.err # NoError
               THEN r.err.kind = "http" /\ r.err.statusCode >= StatusInternalServerError
                                        /\ r.err.statusCode < StatusUpperBound
            ELSE FALSE
       ELSE FALSE

\* mutant of isRecoverable: every HTTP status is taken for a recoverable one
isRecoverable_anyStatus(err) == err.kind = "http"

\* mutant of isRecoverable: the lower end of the 5xx range is off by one
isRecoverable_above500(err) ==
    err.kind = "http" /\ err.statusCode > StatusInternalServerError
                      /\ err.statusCode < StatusUpperBound

\* line 254: the error is an httpError with a 5xx status
isRecoverable(err) ==
    err.kind = "http" /\ err.statusCode >= StatusInternalServerError
                      /\ err.statusCode < StatusUpperBound

\* mutant of onError: a later unrecoverable error is returned like a first one
onError_alwaysReturn(err, first) ==
    IF err = NoError THEN "none"
    ELSE IF isRecoverable(err) THEN "continue"
    ELSE "return"

\* lines 253-264: what the loop does with the err of sendRaw
onError(err, first) ==
    IF err = NoError THEN "none"
    ELSE IF isRecoverable(err) THEN "continue"
    ELSE IF first THEN "return"
    ELSE "break"

\* mutant of isRetryable: InvalidRegistration is retried too
isRetryable_invalidRegistration(r) ==
    r.Err \in {ErrorUnavailable, ErrorInternalServerError, ErrorInvalidRegistration}

\* mutant of isRetryable: every error code is retried
isRetryable_anyError(r) == r.Err # ""

\* line 280
isRetryable(r) == r.Err = ErrorUnavailable \/ r.Err = ErrorInternalServerError

\* mutant of mapPut: an entry the map holds is kept, the first outcome wins
mapPut_keepsFirst(m, k, v) == [x \in DOMAIN m \cup {k} |-> IF x \in DOMAIN m THEN m[x] ELSE v]

\* results[regID] = r
mapPut(m, k, v) == [x \in DOMAIN m \cup {k} |-> IF x = k THEN v ELSE m[x]]
\* results[regID], the zero value for a missing key
mapGet(m, k) == IF k \in DOMAIN m THEN m[k] ELSE ZeroResult

\* mutant of recordResults: the outcome at index i is stored under the id at index i
\* of the original list, not of the subset that was sent
RECURSIVE recordResults_originalIndex(_, _, _, _)
recordResults_originalIndex(ids, rs, i, acc) ==
    IF i > Len(rs) THEN acc
    ELSE recordResults_originalIndex(ids, rs, i + 1,
            [results |-> mapPut(acc.results, regIDs[i], rs[i]),
             retryRegIds |-> IF isRetryable(rs[i])
                                THEN Append(acc.retryRegIds, ids[i])
                                ELSE acc.retryRegIds])

\* mutant of recordResults: a retryable id is appended twice
RECURSIVE recordResults_appendsTwice(_, _, _, _)
recordResults_appendsTwice(ids, rs, i, acc) ==
    IF i > Len(rs) THEN acc
    ELSE recordResults_appendsTwice(ids, rs, i + 1,
            [results |-> mapPut(acc.results, ids[i], rs[i]),
             retryRegIds |-> IF isRetryable(rs[i])
                                THEN Append(Append(acc.retryRegIds, ids[i]), ids[i])
                                ELSE acc.retryRegIds])

\* mutant of recordResults: a recipient the response has no outcome for is retried
RECURSIVE recordResults_retriesUncovered(_, _, _, _)
recordResults_retriesUncovered(ids, rs, i, acc) ==
    IF i > Len(ids) THEN acc
    ELSE IF i > Len(rs)
       THEN recordResults_retriesUncovered(ids, rs, i + 1,
               [acc EXCEPT !.retryRegIds = Append(@, ids[i])])
    ELSE recordResults_retriesUncovered(ids, rs, i + 1,
            [results |-> mapPut(acc.results, ids[i], rs[i]),
             retryRegIds |-> IF isRetryable(rs[i])
                                THEN Append(acc.retryRegIds, ids[i])
                                ELSE acc.retryRegIds])

\* lines 276-283: the loop over resp.Results, from index i on
RECURSIVE recordResults(_, _, _, _)
recordResults(ids, rs, i, acc) ==
    IF i > Len(rs) THEN acc
    ELSE recordResults(ids, rs, i + 1,
            [results |-> mapPut(acc.results, ids[i], rs[i]),
             retryRegIds |-> IF isRetryable(rs[i])
                                THEN Append(acc.retryRegIds, ids[i])
                                ELSE acc.retryRegIds])

\* mutant of retryList: the retry ids are written over the start of the list sent,
\* which shares the caller's array
retryList_filterInPlace(callerList, retry) ==
    [registrationIds |-> retry, array |-> "regIDs",
     regIDs |-> [i \in 1..Len(callerList) |->
                   IF i <= Len(retry) THEN retry[i] ELSE callerList[i]]]

\* lines 267, 276-289 and 295: the retry ids are collected in a slice the loop makes
\* (make, append) and rawMsg.registrationIds is set to it; nothing is written to the
\* array of the caller's list
retryList(callerList, retry) ==
    [registrationIds |-> retry, array |-> "retryRegIds", regIDs |-> callerList]

\* mutant of recordMulticastID: every round's id is stored as the MulticastID
recordMulticastID_overwrite(fr, first, id) ==
    IF id = 0 THEN fr ELSE [fr EXCEPT !.MulticastID = id]

\* mutant of recordMulticastID: a later round's id is appended even when it is 0
recordMulticastID_appendsZero(fr, first, id) ==
    IF first THEN (IF id = 0 THEN fr ELSE [fr EXCEPT !.MulticastID = id])
    ELSE [fr EXCEPT !.RetryMulticastIDs = Append(@, id)]

\* lines 268-274
recordMulticastID(fr, first, id) ==
    IF id = 0 THEN fr
    ELSE IF first THEN [fr EXCEPT !.MulticastID = id]
    ELSE [fr EXCEPT !.RetryMulticastIDs = Append(@, id)]

\* mutant of reconstruct: an id the map does not hold gets no final result
RECURSIVE reconstruct_skipMissing(_, _, _, _)
reconstruct_skipMissing(ids, m, i, fr) ==
    IF i > Len(ids) THEN fr
    ELSE IF ids[i] \notin DOMAIN m THEN reconstruct_skipMissing(ids, m, i + 1, fr)
    ELSE LET r == m[ids[i]]
             withResult == [fr EXCEPT !.Results =
                               Append(@, Result(r.MessageID, r.RegistrationID, r.Err))]
         IN reconstruct_skipMissing(ids, m, i + 1,
                IF r.MessageID # ""
                   THEN [withResult EXCEPT
                            !.Success = @ + 1,
                            !.CanonicalIds = IF r.RegistrationID # "" THEN @ + 1 ELSE @]
                   ELSE [withResult EXCEPT !.Failure = @ + 1])

\* mutant of reconstruct: every outcome with a registration id counts as canonical
RECURSIVE reconstruct_countsEveryCanonical(_, _, _, _)
reconstruct_countsEveryCanonical(ids, m, i, fr) ==
    IF i > Len(ids) THEN fr
    ELSE LET r == mapGet(m, ids[i])
             withResult == [fr EXCEPT
                               !.Results =
                                  Append(@, Result(r.MessageID, r.RegistrationID, r.Err)),
                               !.CanonicalIds = IF r.RegistrationID # "" THEN @ + 1 ELSE @]
         IN reconstruct_countsEveryCanonical(ids, m, i + 1,
                IF r.MessageID # ""
                   THEN [withResult EXCEPT !.Success = @ + 1]
                   ELSE [withResult EXCEPT !.Failure = @ + 1])

\* lines 304-322: the loop over regIDs, from index i on
RECURSIVE reconstruct(_, _, _, _)
reconstruct(ids, m, i, fr) ==
    IF i > Len(ids) THEN fr
    ELSE LET r == mapGet(m, ids[i])
             withResult == [fr EXCEPT !.Results =
                               Append(@, Result(r.MessageID, r.RegistrationID, r.Err))]
         IN reconstruct(ids, m, i + 1,
                IF r.MessageID # ""
                   THEN [withResult EXCEPT
                            !.Success = @ + 1,
                            !.CanonicalIds = IF r.RegistrationID # "" THEN @ + 1 ELSE @]
                   ELSE [withResult EXCEPT !.Failure = @ + 1])

\* history only: the outcomes on record after a response rs to the subset sent.
\* An id's outcome is the one at its last position that the response covers.
coveredPositions(sent, rs, id) ==
    {i \in 1..Len(sent) : i <= Len(rs) /\ sent[i] = id}
latestOutcomes(prev, sent, rs) ==
    [id \in DOMAIN prev \cup {sent[i] : i \in {j \in 1..Len(sent) : j <= Len(rs)}} |->
        IF coveredPositions(sent, rs, id) = {}
           THEN prev[id]
           ELSE rs[CHOOSE i \in coveredPositions(sent, rs, id) :
                      \A j \in coveredPositions(sent, rs, id) : j <= i]]

\* history only: the deliveries on record after a response rs, with multicast id
\* mid, to the subset sent: an id whose outcome on record was a retryable error and
\* that rs reports delivered at a position it covers is entered with that delivery.
deliveredPositions(sent, rs, id) ==
    {i \in coveredPositions(sent, rs, id) : rs[i].MessageID # ""}
latestRedeliveries(prev, before, sent, rs, mid) ==
    LET new == {id \in DOMAIN before :
                  /\ before[id].Err \in {ErrorUnavailable, ErrorInternalServerError}
                  /\ deliveredPositions(sent, rs, id) # {}}
    IN [id \in DOMAIN prev \cup new |->
           IF id \in new
              THEN [MessageID |->
                       rs[CHOOSE i \in deliveredPositions(sent, rs, id) :
                             \A j \in deliveredPositions(sent, rs, id) : j <= i].MessageID,
                    MulticastID |-> mid]
              ELSE prev[id]]

\* --------------------------------------------------------------- actions
Init ==
    /\ APIKey \in {"", "key"}
    /\ Client = "client"
    /\ msg \in Messages
    /\ regIDs \in SeqsOf(RegIDs, 0, MaxLen)
    /\ retriesArg \in -1..MaxRetries
    \* the TimeToLive is read by the argument check alone: its largest accepted value
    \* is tried with the calls that make no retry
    /\ (~msg.isNil /\ msg.TimeToLive = MaxTimeToLive) => retriesArg <= 0
    /\ pc = "call"
    /\ registrationIds = <<>>
    /\ results = <<>>
    /\ finalResult = NewMulticastResult
    /\ backoff = 0
    /\ firstResponse = TRUE
    /\ retries = 0
    /\ sleepTime = 0
    /\ ret = [result |-> <<>>, err |-> NoError]
    /\ sends = 0
    /\ lastRound = <<>>
    /\ recorded = <<>>
    /\ redelivered = <<>>
    /\ subsetArray = ""
    /\ roundIDs = <<>>
    /\ responded = FALSE
    /\ calls = <<>>
    /\ to = <<>>
    /\ attempt = 0
    /\ lastReply = <<>>
    /\ obtained = FALSE
    /\ slept = <<>>
    /\ op = "SendMulticastWithRetries"

\* lines 243-249: the argument check and the locals
Call ==
    /\ pc = "call"
    /\ LET err == checkUnrecoverableErrors(APIKey, <<>>, regIDs, msg, retriesArg)
       IN IF err # NoError
             THEN /\ pc' = "done"
                  /\ ret' = [result |-> <<>>, err |-> err]
                  /\ Client' = IF APIKey # "" /\ Client = "nil" THEN "client" ELSE Client
                  /\ UNCHANGED <<registrationIds, results, finalResult, backoff,
                                 firstResponse, retries, subsetArray>>
             ELSE /\ pc' = "loop"
                  /\ Client' = "client"
                  /\ registrationIds' = regIDs
                  /\ subsetArray' = "regIDs"
                  /\ results' = <<>>
                  /\ finalResult' = NewMulticastResult
                  /\ backoff' = BackoffInitialDelay
                  /\ firstResponse' = TRUE
                  /\ retries' = retriesArg
                  /\ UNCHANGED ret
    /\ UNCHANGED <<APIKey, msg, regIDs, retriesArg, sleepTime, sends, lastRound,
                   recorded, redelivered, roundIDs, responded>>
    /\ UNCHANGED <<singleVars, op, calls>>

\* lines 303-322: reconstruct the final results and return them
Return(m, fr) ==
    /\ pc' = "done"
    /\ finalResult' = reconstruct(regIDs, m, 1, fr)
    /\ ret' = [result |-> <<finalResult'>>, err |-> NoError]

\* rand.Intn(backoff): the two ends of [0, backoff)
Jitters(b) == {0, b - 1}

\* lines 252-298: sendRaw returns reply; the iteration up to its sleep, or up to the
\* return when it leaves the loop
Round(transport) ==
    /\ pc = "loop"
    /\ sends <= MaxRetries + 1
    /\ UNCHANGED <<singleVars, op, calls>>
    /\ \E reply \in {sendRaw(APIKey, <<>>, registrationIds, msg, transport)} :
       /\ sends' = sends + 1
       /\ lastRound' = <<[sent |-> registrationIds, reply |-> reply]>>
       /\ roundIDs' = Append(roundIDs, IF reply.err = NoError THEN reply.MulticastID
                                                              ELSE 0)
       /\ responded' = (responded \/ reply.err = NoError)
       /\ recorded' = IF reply.err = NoError
                         THEN latestOutcomes(recorded, registrationIds, reply.Results)
                         ELSE recorded
       /\ redelivered' = IF reply.err = NoError
                            THEN latestRedeliveries(redelivered, recorded,
                                     registrationIds, reply.Results, reply.MulticastID)
                            ELSE redelivered
       /\ UNCHANGED <<APIKey, Client, msg, retriesArg, backoff, retries>>
       /\ IF onError(reply.err, firstResponse) = "return"
             THEN \* line 258: unrecoverable first response
                  /\ pc' = "done"
                  /\ ret' = [result |-> <<>>, err |-> reply.err]
                  /\ UNCHANGED <<registrationIds, results, finalResult, firstResponse,
                                 sleepTime, regIDs, subsetArray>>
          ELSE IF onError(reply.err, firstResponse) = "break"
             THEN \* line 262: unrecoverable later response
                  /\ Return(results, finalResult)
                  /\ UNCHANGED <<registrationIds, results, firstResponse, sleepTime,
                                 regIDs, subsetArray>>
          ELSE IF reply.err = NoError /\ Len(reply.Results) > Len(registrationIds)
             THEN \* line 278: index out of range
                  /\ pc' = "panic"
                  /\ UNCHANGED <<registrationIds, results, finalResult, firstResponse,
                                 sleepTime, ret, regIDs, subsetArray>>
          ELSE \E rec \in {IF reply.err = NoError
                               THEN recordResults(registrationIds, reply.Results, 1,
                                        [results |-> results, retryRegIds |-> <<>>])
                               ELSE [results |-> results,
                                     retryRegIds |-> registrationIds]},
                   fr \in {IF reply.err = NoError
                              THEN recordMulticastID(finalResult, firstResponse,
                                                     reply.MulticastID)
                              ELSE finalResult} :
                  /\ firstResponse' = FALSE
                  /\ results' = rec.results
                  /\ \E built \in {retryList(regIDs, rec.retryRegIds)} :
                        /\ regIDs' = built.regIDs
                        /\ IF retries <= 0 \/ Len(rec.retryRegIds) = 0
                              THEN /\ Return(rec.results, fr)
                                   /\ UNCHANGED <<registrationIds, sleepTime,
                                                  subsetArray>>
                              ELSE /\ registrationIds' = built.registrationIds
                                   /\ subsetArray' = built.array
                                   /\ finalResult' = fr
                                   /\ \E jitter \in Jitters(backoff) :
                                         sleepTime' = (backoff \div 2) + jitter
                                   /\ pc' = "sleep"
                                   /\ UNCHANGED ret

\* mutant of Wake: the retry budget is not decremented
Wake_noDecrement ==
    /\ pc = "sleep"
    /\ pc' = "loop"
    /\ backoff' = min(2 * backoff, MaxBackoffDelay)
    /\ sleepTime' = 0
    /\ lastRound' = <<>>
    /\ UNCHANGED <<APIKey, Client, msg, regIDs, retriesArg, registrationIds, results,
                   finalResult, firstResponse, ret, sends, recorded, redelivered,
                   retries, subsetArray, roundIDs,
                   responded>>
    /\ UNCHANGED <<singleVars, op, calls>>

\* lines 298-300: time.Sleep returns; the next iteration begins
Wake ==
    /\ pc = "sleep"
    /\ pc' = "loop"
    /\ backoff' = min(2 * backoff, MaxBackoffDelay)
    /\ retries' = retries - 1
    /\ sleepTime' = 0
    /\ lastRound' = <<>>
    /\ UNCHANGED <<APIKey, Client, msg, regIDs, retriesArg, registrationIds, results,
                   finalResult, firstResponse, ret, sends, recorded, redelivered,
                   subsetArray, roundIDs,
                   responded>>
    /\ UNCHANGED <<singleVars, op, calls>>

Next ==
    \/ Call
    \/ \E reply \in RepliesFor[Len(registrationIds), sends + 1] : Round(reply)
    \/ Wake

Spec == Init /\ [][Next]_vars

\* ------------------------------------------------------- SendWithRetries
\* a Sender of NewSender and the arguments of one SendWithRetries call
InitSingle ==
    /\ APIKey \in {"", "key"}
    /\ Client = "client"
    /\ msg \in Messages
    /\ to \in Targets
    /\ retriesArg \in -1..MaxSingleRetries
    /\ pc = "call"
    /\ op = "SendWithRetries"
    /\ attempt = 0
    /\ lastReply = <<>>
    /\ obtained = FALSE
    /\ slept = <<>>
    /\ backoff = 0
    /\ sleepTime = 0
    /\ ret = [result |-> <<>>, err |-> NoError]
    /\ sends = 0
    /\ regIDs = <<>>
    /\ registrationIds = <<>>
    /\ results = <<>>
    /\ finalResult = NewMulticastResult
    /\ firstResponse = TRUE
    /\ retries = 0
    /\ lastRound = <<>>
    /\ recorded = <<>>
    /\ redelivered = <<>>
    /\ subsetArray = ""
    /\ roundIDs = <<>>
    /\ responded = FALSE
    /\ calls = <<>>

\* lines 174-177: the argument check and the locals
CallSingle ==
    /\ pc = "call"
    /\ LET err == checkUnrecoverableErrors(APIKey, to, <<>>, msg, retriesArg)
       IN IF err # NoError
             THEN /\ pc' = "done"
                  /\ ret' = [result |-> <<>>, err |-> err]
                  /\ Client' = IF APIKey # "" /\ Client = "nil" THEN "client" ELSE Client
                  /\ UNCHANGED <<attempt, backoff>>
             ELSE /\ pc' = "loop"
                  /\ Client' = "client"
                  /\ attempt' = 0
                  /\ backoff' = BackoffInitialDelay
                  /\ UNCHANGED ret
    /\ UNCHANGED <<APIKey, msg, to, retriesArg, sleepTime, sends, lastReply, obtained,
                   slept>>
    /\ UNCHANGED <<multicastVars, op, calls>>

\* mutant of assign: a nil result does not replace the result of an earlier attempt
assign_keepsResult(old, r) ==
    [result |-> IF r.result = <<>> THEN old.result ELSE r.result, err |-> r.err]

\* line 180: the named results result, err are assigned what SendNoRetry returned;
\* old is what they held
assign(old, r) == [result |-> r.result, err |-> r.err]

\* lines 178-199: one iteration up to its sleep, or up to the return when it leaves
\* the loop; SendNoRetry gets the transport's reply
Attempt(transport) ==
    /\ pc = "loop"
    /\ attempt <= MaxSleepRetries + 1
    /\ attempt' = attempt + 1
    /\ obtained' = (obtained \/ ret.result # <<>>)
    /\ \E r \in {SendNoRetry(APIKey, msg, to, transport)} :
          /\ ret' = assign(ret, r)
          /\ sends' = IF r.sent THEN sends + 1 ELSE sends
          /\ lastReply' = IF r.sent THEN <<transport>> ELSE <<>>
          /\ IF tryAgain(attempt', retriesArg, r)
                THEN /\ \E jitter \in Jitters(backoff) :
                           /\ sleepTime' = (backoff \div 2) + jitter
                           /\ slept' = IF slept = <<>> THEN <<>>
                                       ELSE <<slept[1] + sleepTime'>>
                     /\ pc' = "sleep"
                ELSE /\ pc' = "done"
                     /\ UNCHANGED <<sleepTime, slept>>
    /\ UNCHANGED <<APIKey, Client, msg, to, retriesArg, backoff>>
    /\ UNCHANGED <<multicastVars, op, calls>>

\* lines 196-197: time.Sleep returns; the backoff doubles and the loop goes on
WakeSingle ==
    /\ pc = "sleep"
    /\ pc' = "loop"
    /\ backoff' = min(2 * backoff, MaxBackoffDelay)
    /\ sleepTime' = 0
    /\ UNCHANGED <<APIKey, Client, msg, to, retriesArg, attempt, ret, sends,
                   lastReply, obtained, slept>>
    /\ UNCHANGED <<multicastVars, op, calls>>

NextSingle ==
    \/ CallSingle
    \/ \E reply \in SingleRepliesFor[attempt + 1] : Attempt(reply)
    \/ WakeSingle

SpecSingle == InitSingle /\ [][NextSingle]_vars

\* ------------------------------- SendWithRetries, its sleeps added up
\* the retry budgets of the calls whose sleeps are added up
SleepBudgets == {0, 1, MaxSleepRetries}

\* a Sender of NewSender and a SendWithRetries call with valid arguments
InitSleep ==
    /\ APIKey = "key"
    /\ Client = "client"
    /\ msg = [isNil |-> FALSE, TimeToLive |-> 0]
    /\ to = <<"1">>
    /\ retriesArg \in SleepBudgets
    /\ pc = "call"
    /\ op = "SendWithRetries"
    /\ attempt = 0
    /\ lastReply = <<>>
    /\ obtained = FALSE
    /\ slept = <<0>>
    /\ backoff = 0
    /\ sleepTime = 0
    /\ ret = [result |-> <<>>, err |-> NoError]
    /\ sends = 0
    /\ regIDs = <<>>
    /\ registrationIds = <<>>
    /\ results = <<>>
    /\ finalResult = NewMulticastResult
    /\ firstResponse = TRUE
    /\ retries = 0
    /\ lastRound = <<>>
    /\ recorded = <<>>
    /\ redelivered = <<>>
    /\ subsetArray = ""
    /\ roundIDs = <<>>
    /\ responded = FALSE
    /\ calls = <<>>

NextSleep ==
    \/ CallSingle
    \/ \E reply \in SleepReplies : Attempt(reply)
    \/ WakeSingle

SpecSleep == InitSleep /\ [][NextSleep]_vars

\* ------------------------------------- the four operations of a Sender
\* what the sendRaw call of SendMulticastNoRetry returns when n recipients were sent:
\* an error, or a response with its counts, MulticastID and Results
MulticastNoRetryReplies(n) ==
    {[err |-> e, MulticastID |-> 0, Success |-> 0, Failure |-> 0, CanonicalIds |-> 0,
      Results |-> <<>>] :
         e \in {httpError(c) : c \in StatusCodes} \cup {otherError("transport")}}
        \cup {[err |-> NoError, MulticastID |-> id, Success |-> c[1],
                Failure |-> c[2], CanonicalIds |-> c[3], Results |-> rs] :
                 id \in {0, 1},
                 c \in {<<0, 0, 0>>, <<1, 1, 1>>},
                 rs \in SeqsOf(ResultSet(1), 0, n)}

\* lines 207-234: SendMulticastNoRetry with the transport's reply; sent tells whether
\* sendRaw reached the transport
SendMulticastNoRetry(apiKey, m, ids, transport) ==
    IF checkUnrecoverableErrors(apiKey, <<>>, ids, m, 0) # NoError
       THEN [result |-> <<>>, sent |-> FALSE,
             err |-> checkUnrecoverableErrors(apiKey, <<>>, ids, m, 0)]
    ELSE LET resp == sendRaw(apiKey, <<>>, ids, m, transport)
         IN IF resp.err # NoError
               THEN [result |-> <<>>, sent |-> TRUE, err |-> resp.err]
               ELSE [result |->
                        <<[Success |-> resp.Success, Failure |-> resp.Failure,
                           CanonicalIds |-> resp.CanonicalIds,
                           MulticastID |-> resp.MulticastID,
                           Results |-> [i \in 1..Len(resp.Results) |->
                                           Result(resp.Results[i].MessageID,
                                                  resp.Results[i].RegistrationID,
                                                  resp.Results[i].Err)],
                           RetryMulticastIDs |-> <<>>]>>,
                     sent |-> TRUE, err |-> NoError]

\* a Sender and the arguments of one SendNoRetry call
InitNoRetry ==
    /\ APIKey \in {"", "key"}
    /\ Client = "client"
    /\ msg \in Messages
    /\ to \in Targets
    /\ regIDs = <<>>
    /\ op = "SendNoRetry"
    /\ retriesArg = 0
    /\ pc = "call"
    /\ attempt = 0
    /\ lastReply = <<>>
    /\ obtained = FALSE
    /\ slept = <<>>
    /\ backoff = 0
    /\ sleepTime = 0
    /\ ret = [result |-> <<>>, err |-> NoError]
    /\ sends = 0
    /\ registrationIds = <<>>
    /\ results = <<>>
    /\ finalResult = NewMulticastResult
    /\ firstResponse = TRUE
    /\ retries = 0
    /\ lastRound = <<>>
    /\ recorded = <<>>
    /\ redelivered = <<>>
    /\ subsetArray = ""
    /\ roundIDs = <<>>
    /\ responded = FALSE
    /\ calls = <<>>

\* a Sender and the arguments of one SendMulticastNoRetry call
InitMulticastNoRetry ==
    /\ APIKey \in {"", "key"}
    /\ Client = "client"
    /\ msg \in Messages
    /\ to = <<>>
    /\ regIDs \in SeqsOf(RegIDs, 0, MaxLen)
    /\ op = "SendMulticastNoRetry"
    /\ retriesArg = 0
    /\ pc = "call"
    /\ attempt = 0
    /\ lastReply = <<>>
    /\ obtained = FALSE
    /\ slept = <<>>
    /\ backoff = 0
    /\ sleepTime = 0
    /\ ret = [result |-> <<>>, err |-> NoError]
    /\ sends = 0
    /\ registrationIds = <<>>
    /\ results = <<>>
    /\ finalResult = NewMulticastResult
    /\ firstResponse = TRUE
    /\ retries = 0
    /\ lastRound = <<>>
    /\ recorded = <<>>
    /\ redelivered = <<>>
    /\ subsetArray = ""
    /\ roundIDs = <<>>
    /\ responded = FALSE
    /\ calls = <<>>

\* lines 135-170: one SendNoRetry call, from its argument check to its return
CallNoRetry(transport) ==
    /\ pc = "call" /\ op = "SendNoRetry"
    /\ pc' = "done"
    /\ \E r \in {SendNoRetry(APIKey, msg, to, transport)} :
          /\ ret' = [result |-> r.result, err |-> r.err]
          /\ sends' = IF r.sent THEN sends + 1 ELSE sends
          /\ lastReply' = IF r.sent THEN <<transport>> ELSE <<>>
    /\ Client' = IF APIKey # "" /\ Client = "nil" THEN "client" ELSE Client
    /\ UNCHANGED <<APIKey, msg, to, retriesArg, attempt, backoff, sleepTime, op, calls,
                   obtained, slept>>
    /\ UNCHANGED multicastVars

\* lines 207-234: one SendMulticastNoRetry call, from its argument check to its
\* return
CallMulticastNoRetry(transport) ==
    /\ pc = "call" /\ op = "SendMulticastNoRetry"
    /\ pc' = "done"
    /\ \E r \in {SendMulticastNoRetry(APIKey, msg, regIDs, transport)} :
          /\ ret' = [result |-> r.result, err |-> r.err]
          /\ sends' = IF r.sent THEN sends + 1 ELSE sends
    /\ Client' = IF APIKey # "" /\ Client = "nil" THEN "client" ELSE Client
    /\ UNCHANGED <<APIKey, msg, retriesArg, backoff, sleepTime, op, calls>>
    /\ UNCHANGED <<multicastVars, singleVars>>

\* one call of any of the four operations
InitSender == Init \/ InitSingle \/ InitNoRetry \/ InitMulticastNoRetry

NextSender ==
    \/ op = "SendMulticastWithRetries" /\ Next
    \/ op = "SendWithRetries" /\ NextSingle
    \/ op = "SendNoRetry" /\ \E reply \in SingleRepliesFor[1] : CallNoRetry(reply)
    \/ op = "SendMulticastNoRetry"
          /\ \E reply \in MulticastNoRetryReplies(Len(regIDs)) :
                CallMulticastNoRetry(reply)

SpecSender == InitSender /\ [][NextSender]_vars

\* every transport call returns and every sleep ends
SpecSenderFair == SpecSender /\ WF_vars(NextSender)

\* ------------------------------------ concurrent calls on one Sender
\* the goroutines that call the Sender
CallIDs == {1, 2}
\* the retry budgets they pass
ConcurrentBudgets == {0, 1}
\* new(http.Client) made by call p
newClient(p) == "client" \o ToString(p)

\* a call before its first step: its arguments, and the zero values of its locals;
\* client is the s.Client its latest sendRaw used
newCall(operation, target, ids, n) ==
    [op |-> operation, to |-> target, regIDs |-> ids, retriesArg |-> n,
     msg |-> [isNil |-> FALSE, TimeToLive |-> 0],
     pc |-> "call", registrationIds |-> <<>>, results |-> <<>>,
     finalResult |-> NewMulticastResult, backoff |-> 0, firstResponse |-> TRUE,
     retries |-> 0, attempt |-> 0, sends |-> 0, client |-> "",
     ret |-> [result |-> <<>>, err |-> NoError]]

\* the replies of the transport to the k-th send of a call: status 400, status 500,
\* every recipient delivered, every recipient Unavailable
ConcurrentMulticastReplies(n, k) ==
    {r \in RepliesFor[n, k] :
        \/ r.err \in {httpError(400), httpError(500)}
        \/ /\ r.err = NoError /\ r.MulticastID = k /\ Len(r.Results) = n
           /\ \E o \in {result(messageID(k), "", ""), result("", "", ErrorUnavailable)} :
                 \A i \in 1..n : r.Results[i] = o}
ConcurrentSingleReplies(k) ==
    {r \in SingleRepliesFor[k] :
        \/ r.err \in {httpError(400), httpError(500)}
        \/ /\ r.err = NoError /\ ~r.ResultsNil /\ Len(r.Results) = 1
           /\ r.Results[1] \in {result(messageID(k), "", ""),
                                 result("", "", ErrorUnavailable)}}

\* one Sender, with or without a Client, and two calls about to start
InitConcurrent ==
    /\ APIKey \in {"", "key"}
    /\ Client \in {"nil", "client"}
    /\ calls \in [CallIDs ->
          {newCall("SendMulticastWithRetries", <<>>, ids, n) :
              ids \in {<<"1">>, <<"1", "2">>}, n \in ConcurrentBudgets}
            \cup {newCall("SendWithRetries", <<"1">>, <<>>, n) : n \in ConcurrentBudgets}]
    /\ msg = [isNil |-> FALSE, TimeToLive |-> 0]
    /\ regIDs = <<>>
    /\ to = <<>>
    /\ op = ""
    /\ retriesArg = 0
    /\ pc = "call"
    /\ attempt = 0
    /\ lastReply = <<>>
    /\ obtained = FALSE
    /\ slept = <<>>
    /\ backoff = 0
    /\ sleepTime = 0
    /\ ret = [result |-> <<>>, err |-> NoError]
    /\ sends = 0
    /\ registrationIds = <<>>
    /\ results = <<>>
    /\ finalResult = NewMulticastResult
    /\ firstResponse = TRUE
    /\ retries = 0
    /\ lastRound = <<>>
    /\ recorded = <<>>
    /\ redelivered = <<>>
    /\ subsetArray = ""
    /\ roundIDs = <<>>
    /\ responded = FALSE

\* the variables of the single-call specifications
sequentialVars == <<msg, regIDs, to, op, retriesArg, pc, attempt, lastReply, obtained,
                    slept, backoff,
                    sleepTime, ret, sends, registrationIds, results, finalResult,
                    firstResponse, retries, lastRound, recorded, redelivered,
                    subsetArray, roundIDs,
                   responded>>

\* lines 52-55 of checkUnrecoverableErrors in call p: the API key is checked and
\* s.Client is read
CheckSender(p) ==
    /\ calls[p].pc = "call"
    /\ calls' = [calls EXCEPT ![p] =
          IF APIKey = ""
             THEN [@ EXCEPT !.pc = "done",
                            !.ret = [result |-> <<>>,
                                     err |-> validationError("missing API key")]]
          ELSE IF Client = "nil" THEN [@ EXCEPT !.pc = "setClient"]
          ELSE [@ EXCEPT !.pc = "checked"]]
    /\ UNCHANGED <<APIKey, Client, sequentialVars>>

\* line 56 in call p: s.Client = new(http.Client)
SetClient(p) ==
    /\ calls[p].pc = "setClient"
    /\ Client' = newClient(p)
    /\ calls' = [calls EXCEPT ![p].pc = "checked"]
    /\ UNCHANGED <<APIKey, sequentialVars>>

\* lines 58-73, then lines 177 and 246-249, in call p: the other argument checks
\* and the locals
EnterLoop(p) ==
    /\ calls[p].pc = "checked"
    /\ LET c == calls[p]
           err == checkUnrecoverableErrors(APIKey, c.to, c.regIDs, c.msg, c.retriesArg)
       IN calls' = [calls EXCEPT ![p] =
             IF err # NoError
                THEN [c EXCEPT !.pc = "done", !.ret = [result |-> <<>>, err |-> err]]
                ELSE [c EXCEPT !.pc = "loop",
                               !.registrationIds = c.regIDs,
                               !.backoff = BackoffInitialDelay,
                               !.retries = c.retriesArg]]
    /\ UNCHANGED <<APIKey, Client, sequentialVars>>

\* lines 252-298: the locals of a SendMulticastWithRetries call c after the round
\* that sendRaw answered with reply, up to its sleep or its return
multicastRound(c, reply) ==
    IF onError(reply.err, c.firstResponse) = "return"
       THEN [c EXCEPT !.pc = "done", !.ret = [result |-> <<>>, err |-> reply.err]]
    ELSE IF onError(reply.err, c.firstResponse) = "break"
       THEN LET fr == reconstruct(c.regIDs, c.results, 1, c.finalResult)
            IN [c EXCEPT !.pc = "done", !.finalResult = fr,
                         !.ret = [result |-> <<fr>>, err |-> NoError]]
    ELSE IF reply.err = NoError /\ Len(reply.Results) > Len(c.registrationIds)
       THEN [c EXCEPT !.pc = "panic"]
    ELSE LET rec == IF reply.err = NoError
                       THEN recordResults(c.registrationIds, reply.Results, 1,
                                [results |-> c.results, retryRegIds |-> <<>>])
                       ELSE [results |-> c.results, retryRegIds |-> c.registrationIds]
             fr == IF reply.err = NoError
                      THEN recordMulticastID(c.finalResult, c.firstResponse,
                                             reply.MulticastID)
                      ELSE c.finalResult
         IN IF c.retries <= 0 \/ Len(rec.retryRegIds) = 0
               THEN LET final == reconstruct(c.regIDs, rec.results, 1, fr)
                    IN [c EXCEPT !.pc = "done", !.firstResponse = FALSE,
                                 !.results = rec.results, !.finalResult = final,
                                 !.ret = [result |-> <<final>>, err |-> NoError]]
               ELSE [c EXCEPT !.pc = "sleep", !.firstResponse = FALSE,
                              !.results = rec.results, !.finalResult = fr,
                              !.registrationIds = rec.retryRegIds]

\* one round of call p, a SendMulticastWithRetries call; its sendRaw uses s.Client
RoundOf(p, transport) ==
    /\ calls[p].pc = "loop" /\ calls[p].op = "SendMulticastWithRetries"
    /\ LET c == calls[p]
           reply == sendRaw(APIKey, <<>>, c.registrationIds, c.msg, transport)
       IN calls' = [calls EXCEPT ![p] =
             [multicastRound(c, reply) EXCEPT !.sends = c.sends + 1,
                                              !.client = Client]]
    /\ UNCHANGED <<APIKey, Client, sequentialVars>>

\* lines 178-199: one attempt of call p, a SendWithRetries call, up to its sleep or
\* its return; its sendRaw uses s.Client
AttemptOf(p, transport) ==
    /\ calls[p].pc = "loop" /\ calls[p].op = "SendWithRetries"
    /\ LET c == calls[p]
           r == SendNoRetry(APIKey, c.msg, c.to, transport)
       IN calls' = [calls EXCEPT ![p] =
             [c EXCEPT !.attempt = c.attempt + 1,
                       !.ret = [result |-> r.result, err |-> r.err],
                       !.sends = IF r.sent THEN c.sends + 1 ELSE c.sends,
                       !.client = Client,
                       !.pc = IF tryAgain(c.attempt + 1, c.retriesArg, r)
                                 THEN "sleep" ELSE "done"]]
    /\ UNCHANGED <<APIKey, Client, sequentialVars>>

\* lines 196-197 and 298-300: the sleep of call p ends; the length of the sleep is
\* not kept
WakeOf(p) ==
    /\ calls[p].pc = "sleep"
    /\ calls' = [calls EXCEPT ![p] =
          [@ EXCEPT !.pc = "loop",
                    !.backoff = min(2 * @, MaxBackoffDelay),
                    !.retries = IF calls[p].op = "SendMulticastWithRetries"
                                   THEN @ - 1 ELSE @]]
    /\ UNCHANGED <<APIKey, Client, sequentialVars>>

NextConcurrent ==
    \E p \in CallIDs :
       \/ CheckSender(p)
       \/ SetClient(p)
       \/ EnterLoop(p)
       \/ calls[p].pc = "loop" /\ calls[p].op = "SendMulticastWithRetries"
             /\ \E reply \in ConcurrentMulticastReplies(Len(calls[p].registrationIds),
                                                         calls[p].sends + 1) :
                   RoundOf(p, reply)
       \/ calls[p].pc = "loop" /\ calls[p].op = "SendWithRetries"
             /\ \E reply \in ConcurrentSingleReplies(calls[p].sends + 1) :
                   AttemptOf(p, reply)
       \/ WakeOf(p)

SpecConcurrent == InitConcurrent /\ [][NextConcurrent]_vars

\* ================================================================ claims
\* SendMulticastWithRetries has returned a result and a nil error
ReturnedResult == pc = "done" /\ ret.err = NoError /\ Len(ret.result) = 1
\* the outcome on record for an id, the empty outcome when there is none
recordedOutcome(id) == IF id \in DOMAIN recorded THEN recorded[id] ELSE ZeroResult
\* the error is an HTTP status in 500..599
Is5xx(err) == err.kind = "http" /\ err.statusCode \in 500..599
\* the error is a failure that is not an HTTP status in 500..599
IsTerminalFailure(err) == err.kind # "nil" /\ ~Is5xx(err)
\* the arguments fail the validation
InvalidInput ==
    \/ APIKey = ""
    \/ msg.isNil
    \/ msg.TimeToLive \notin 0..2419200
    \/ regIDs = <<>>
    \/ retriesArg < 0

\* C1: whenever SendMulticastWithRetries returns a nil error, the result holds one
\* outcome per entry of the original list and Success + Failure is the list's length.
C1_LengthAndCounts ==
    (pc = "done" /\ ret.err = NoError) =>
        /\ Len(ret.result) = 1
        /\ Len(ret.result[1].Results) = Len(regIDs)
        /\ ret.result[1].Success + ret.result[1].Failure = Len(regIDs)

\* a call on a list with a duplicate id returns after three rounds with both
\* positions failed
C1_Witness ==
    /\ ReturnedResult
    /\ Len(regIDs) = 2 /\ regIDs[1] = regIDs[2]
    /\ sends = 3
    /\ ret.result[1].Failure = 2

\* C2: in the returned result, position i holds the outcome most recently recorded
\* for the id regIDs[i] (the empty outcome if none was), counted as a success iff it
\* carries a message id and as a failure otherwise.
C2_ResultsFollowOriginalOrder ==
    ReturnedResult =>
        LET res == ret.result[1].Results
        IN /\ Len(res) = Len(regIDs)
           /\ \A i \in 1..Len(regIDs) :
                 LET o == recordedOutcome(regIDs[i])
                 IN /\ res[i].MessageID = o.MessageID
                    /\ res[i].CanonicalRegistrationID = o.RegistrationID
                    /\ res[i].Error = o.Err
           /\ ret.result[1].Success =
                 Cardinality({i \in 1..Len(res) : res[i].MessageID # ""})
           /\ ret.result[1].Failure =
                 Cardinality({i \in 1..Len(res) : res[i].MessageID = ""})

\* the second recipient alone is retried, at index 1 of the subset, and its delivery
\* is reported at index 2 of the result
C2_Witness ==
    /\ ReturnedResult
    /\ regIDs = <<"1", "2">>
    /\ sends = 2
    /\ lastRound[1].sent = <<"2">>
    /\ ret.result[1].Results[1].MessageID = "id1"
    /\ ret.result[1].Results[2].MessageID = "id2"

\* C3: the call returns an error and no result exactly when the arguments are invalid
\* or the first round fails with a failure that is not a 5xx status; every other
\* call that returns gives a result and a nil error.
C3_ErrorExactlyOnFirstRound ==
    pc = "done" =>
        IF \/ InvalidInput
           \/ sends = 1 /\ IsTerminalFailure(lastRound[1].reply.err)
           THEN ret.err # NoError /\ ret.result = <<>>
           ELSE ret.err = NoError /\ Len(ret.result) = 1

\* C3's witness: with retry budget left, a first round answered 400 ends the call
\* with that error
C3_Witness ==
    /\ pc = "done"
    /\ retriesArg >= 1
    /\ sends = 1
    /\ lastRound[1].reply.err = httpError(400)
    /\ ret = [result |-> <<>>, err |-> httpError(400)]

\* the ids of a list
idsOf(seq) == {seq[i] : i \in 1..Len(seq)}
\* the id occurs once in the original list
occursOnce(id) == Cardinality({i \in 1..Len(regIDs) : regIDs[i] = id}) = 1
\* this step is a round after the first that fails with a failure that is not a 5xx
\* status
LaterTerminalRound ==
    /\ pc = "loop" /\ sends >= 1 /\ sends' = sends + 1
    /\ IsTerminalFailure(lastRound'[1].reply.err)
\* on such a step the call stops sending and returns, with a nil error, the
\* reconciliation of the outcomes on record before it, and the round adds no id
C4_ReturnsEarlierOutcomes ==
    /\ pc' = "done"
    /\ ret'.err = NoError /\ Len(ret'.result) = 1
    /\ ret'.result[1].MulticastID = finalResult.MulticastID
    /\ ret'.result[1].RetryMulticastIDs = finalResult.RetryMulticastIDs
    /\ Len(ret'.result[1].Results) = Len(regIDs)
    /\ \A i \in 1..Len(regIDs) :
          LET o == recordedOutcome(regIDs[i])
          IN /\ ret'.result[1].Results[i].MessageID = o.MessageID
             /\ ret'.result[1].Results[i].Error = o.Err
    /\ ret'.result[1].Success =
          Cardinality({i \in 1..Len(regIDs) : recordedOutcome(regIDs[i]).MessageID # ""})
    /\ ret'.result[1].Failure =
          Cardinality({i \in 1..Len(regIDs) : recordedOutcome(regIDs[i]).MessageID = ""})

\* C4 as stated: a later round's terminal failure ends the call with a nil error and
\* the reconciliation of the earlier rounds' outcomes, and every recipient still
\* awaiting retry is reported as a failure.
C4_Original ==
    [][LaterTerminalRound =>
          /\ C4_ReturnsEarlierOutcomes
          /\ \A i \in 1..Len(regIDs) :
                regIDs[i] \in idsOf(registrationIds) =>
                   ret'.result[1].Results[i].MessageID = ""]_vars

\* C4 as amended: a later round's terminal failure ends the call with a nil error and
\* the reconciliation of the earlier rounds' outcomes; a recipient still awaiting
\* retry is reported with the outcome last recorded for its id, which, when the id
\* occurs once in the original list, is its retryable error (or the empty outcome if
\* no round returned a response) and counts as a failure.
C4_LaterTerminalFailure ==
    [][LaterTerminalRound =>
          /\ C4_ReturnsEarlierOutcomes
          /\ \A i \in 1..Len(regIDs) :
                (regIDs[i] \in idsOf(registrationIds) /\ occursOnce(regIDs[i])) =>
                   /\ ret'.result[1].Results[i].MessageID = ""
                   /\ ret'.result[1].Results[i].Error
                         \in {"", ErrorUnavailable, ErrorInternalServerError}]_vars

\* round 1 = [delivered, Unavailable], round 2 = 400: Success 1, Failure 1,
\* MulticastID 1, no retry ids
C4_Witness ==
    /\ ReturnedResult
    /\ regIDs = <<"1", "2">>
    /\ sends = 2
    /\ lastRound[1].reply.err = httpError(400)
    /\ ret.result[1].Success = 1 /\ ret.result[1].Failure = 1
    /\ ret.result[1].MulticastID = 1
    /\ ret.result[1].RetryMulticastIDs = <<>>
    /\ ret.result[1].Results[1].MessageID = "id1"
    /\ ret.result[1].Results[2].Error = ErrorUnavailable

\* position i of the returned result reports the delivery d: its message id, no
\* error, and the delivering round's multicast id among the retry ids
C5_ReportsDelivery(i, d) ==
    /\ ret.result[1].Results[i].MessageID = d.MessageID
    /\ ret.result[1].Results[i].Error = ""
    /\ d.MulticastID # 0 => d.MulticastID \in idsOf(ret.result[1].RetryMulticastIDs)
\* the returned counts: a position counts as a success iff it has a message id
C5_CountsByMessageID ==
    /\ ret.result[1].Success =
          Cardinality({i \in 1..Len(regIDs) : ret.result[1].Results[i].MessageID # ""})
    /\ ret.result[1].Success + ret.result[1].Failure = Len(regIDs)

retryablePositions(sent, rs) ==
    {i \in 1..Len(sent) :
        i <= Len(rs) /\ rs[i].Err \in {ErrorUnavailable, ErrorInternalServerError}}
\* seq is the subsequence of sent at the positions pos, in their order
IsSubsequenceAt(seq, sent, pos) ==
    /\ Len(seq) = Cardinality(pos)
    /\ \A i \in pos : seq[Cardinality({k \in pos : k <= i})] = sent[i]
\* this step is a round that returned a response and did not panic
ResponseRound ==
    /\ pc = "loop" /\ sends' = sends + 1
    /\ lastRound'[1].reply.err = NoError
    /\ pc' # "panic"

\* C6: after a round that returned a response, the next round's subset is the
\* subsequence of the current subset at the positions whose outcome is Unavailable
\* or InternalServerError; no other position is sent again, and the subset is what
\* the next round sends.
C6_NextSubsetIsRetryablePositions ==
    [][/\ ResponseRound =>
            LET pos == retryablePositions(registrationIds, lastRound'[1].reply.Results)
            IN IF pos # {} /\ retries > 0
                  THEN pc' = "sleep" /\ IsSubsequenceAt(registrationIds', registrationIds, pos)
                  ELSE pc' = "done"
       /\ pc = "sleep" => (pc' = "loop" /\ registrationIds' = registrationIds)]_vars

\* of ["1","2"] answered [InvalidRegistration, InternalServerError], "2" alone is
\* the next subset
C6_Witness ==
    /\ pc = "sleep"
    /\ lastRound[1].sent = <<"1", "2">>
    /\ lastRound[1].reply.err = NoError
    /\ Len(lastRound[1].reply.Results) = 2
    /\ lastRound[1].reply.Results[1].Err = ErrorInvalidRegistration
    /\ lastRound[1].reply.Results[2].Err = ErrorInternalServerError
    /\ registrationIds = <<"2">>

C8_OnlyApplicationErrorsRetried ==
    pc = "sleep" =>
        /\ lastRound[1].reply.err = NoError
        /\ retryablePositions(lastRound[1].sent, lastRound[1].reply.Results) # {}

\* the ids still to retry when the latest round ended: the subset sent if it failed
\* with a 5xx status, the ids at the retryable positions if it returned a response
pendingIds ==
    IF lastRound = <<>> THEN {}
    ELSE IF Is5xx(lastRound[1].reply.err) THEN idsOf(lastRound[1].sent)
    ELSE IF lastRound[1].reply.err = NoError
        THEN {lastRound[1].sent[i] :
                 i \in retryablePositions(lastRound[1].sent, lastRound[1].reply.Results)}
    ELSE {}
\* at most retries+1 sends, no sleep after the last of them, and a call that ends
\* with ids still to retry returns a nil error and their outcomes on record
C9_BudgetBoundsSends ==
    /\ retriesArg >= 0 => sends <= retriesArg + 1
    /\ pc = "sleep" => sends <= retriesArg
    /\ (pc \in {"done", "panic"} /\ sends = retriesArg + 1 /\ pendingIds # {}) =>
          /\ pc = "panic" \/ ReturnedResult
          /\ ReturnedResult =>
                \A i \in 1..Len(regIDs) :
                   regIDs[i] \in pendingIds =>
                      /\ ret.result[1].Results[i].MessageID
                            = recordedOutcome(regIDs[i]).MessageID
                      /\ ret.result[1].Results[i].Error = recordedOutcome(regIDs[i]).Err

\* C9 as stated: at most retries+1 sends; when the budget is exhausted with recipients
\* still retryable the call returns a nil error and reports those recipients as
\* failures with their last recorded error.
C9_Original ==
    /\ C9_BudgetBoundsSends
    /\ (ReturnedResult /\ sends = retriesArg + 1) =>
          \A i \in 1..Len(regIDs) :
             regIDs[i] \in pendingIds => ret.result[1].Results[i].MessageID = ""

\* C9 as amended: at most retries+1 sends; when the budget is exhausted with
\* recipients still retryable the call returns a nil error and reports each with the
\* outcome last recorded for its id, which, when the id occurs once in the original
\* list, is its retryable error (or the empty outcome if no round returned a
\* response) and counts as a failure.
C9_BudgetExhausted ==
    /\ C9_BudgetBoundsSends
    /\ (ReturnedResult /\ sends = retriesArg + 1) =>
          \A i \in 1..Len(regIDs) :
             (regIDs[i] \in pendingIds /\ occursOnce(regIDs[i])) =>
                /\ ret.result[1].Results[i].MessageID = ""
                /\ ret.result[1].Results[i].Error
                      \in {"", ErrorUnavailable, ErrorInternalServerError}

\* round 1 = [id1, Unavailable], round 2 = [Unavailable], retries = 1: Success 1,
\* Failure 1, retry ids [2], Results [id1, Unavailable]
C9_Witness ==
    /\ ReturnedResult
    /\ regIDs = <<"1", "2">> /\ retriesArg = 1 /\ sends = 2
    /\ pendingIds = {"2"}
    /\ ret.result[1].Success = 1 /\ ret.result[1].Failure = 1
    /\ ret.result[1].RetryMulticastIDs = <<2>>
    /\ ret.result[1].Results[1] = Result("id1", "", "")
    /\ ret.result[1].Results[2] = Result("", "", ErrorUnavailable)

\* the attempt returned a result whose error is Unavailable or InternalServerError
IsRetryableResult(r) ==
    Len(r.result) = 1
        /\ r.result[1].Error \in {"Unavailable", "InternalServerError"}

\* C10: SendWithRetries sends again after an attempt if and only if the attempts made
\* so far are <= retries and the attempt returned a result whose error is Unavailable
\* or InternalServerError or failed with an HTTP status in 500..599; otherwise the
\* call ends after that attempt; each attempt is one send and the call makes at most
\* retries+1 of them.
C10_SendsAgainIff ==
    [][/\ (pc = "loop" /\ attempt' = attempt + 1) =>
            /\ pc' \in {"sleep", "done"}
            /\ pc' = "sleep" <=>
                  /\ attempt' <= retriesArg
                  /\ IsRetryableResult(ret') \/ Is5xx(ret'.err)
            /\ sends' = sends + 1
            /\ sends' = attempt'
            /\ sends' <= retriesArg + 1
       /\ (pc = "sleep" /\ attempt' = attempt) => pc' = "loop"]_vars

\* with retries = 2: two retryable attempts were each followed by another send, and
\* the third attempt, retryable too, ended the call
C10_Witness ==
    /\ pc = "done"
    /\ retriesArg = 2
    /\ attempt = 3 /\ sends = 3
    /\ IsRetryableResult(ret)

\* the retryable error code the reply of an attempt carries for the target: that of
\* the one result of a downstream response, or that of a topic response without a
\* message id; "" when it carries none
retryableCodeOf(reply, target) ==
    IF reply.err # NoError THEN ""
    ELSE IF ~reply.ResultsNil
        THEN IF Len(reply.Results) = 1
                  /\ reply.Results[1].Err \in {"Unavailable", "InternalServerError"}
                THEN reply.Results[1].Err ELSE ""
    ELSE IF Len(target) >= 1 /\ target[1] = "/topics/" /\ reply.MessageID = 0
              /\ reply.Err \in {"Unavailable", "InternalServerError"}
        THEN reply.Err
    ELSE ""

\* C11: when SendWithRetries has used up its budget (retries+1 attempts) and the last
\* attempt was answered with a retryable application error, it returns a nil error
\* and that attempt's result, whose Error is that error code.
C11_ExhaustedReturnsLastResult ==
    (pc = "done" /\ attempt = retriesArg + 1 /\ lastReply # <<>>
        /\ retryableCodeOf(lastReply[1], to) # "") =>
       /\ ret.err = NoError
       /\ Len(ret.result) = 1
       /\ ret.result[1].Error = retryableCodeOf(lastReply[1], to)
       /\ ret.result[1].MessageID
             = IF lastReply[1].ResultsNil THEN "" ELSE lastReply[1].Results[1].MessageID

\* retries = 1, two attempts each answered Unavailable: the call has returned the
\* second result
C11_Witness ==
    /\ pc = "done"
    /\ retriesArg = 1 /\ attempt = 2 /\ sends = 2
    /\ lastReply # <<>>
    /\ retryableCodeOf(lastReply[1], to) = "Unavailable"
    /\ ret.err = NoError
    /\ ret.result = <<Result("", "", "Unavailable")>>

\* the target is not a topic and the reply to the first attempt is a device group's
\* partial success: no results, success > 0, failure > 0 and failed registration ids
PartialSuccessFirst ==
    /\ attempt >= 1 /\ lastReply # <<>> /\ sends = 1
    /\ ~(Len(to) >= 1 /\ to[1] = "/topics/")
    /\ lastReply[1].err = NoError /\ lastReply[1].ResultsNil
    /\ lastReply[1].Success > 0 /\ lastReply[1].Failure > 0
    /\ lastReply[1].FailedRegistrationIDs # <<>>

\* C12: for a device-group target, a first response reporting partial success ends
\* SendWithRetries after that one send, whatever the budget: it returns a nil error
\* and a result with the response's success and failure counts and failed ids.
C12_PartialSuccessIsFinal ==
    PartialSuccessFirst =>
       /\ pc = "done" /\ attempt = 1
       /\ ret.err = NoError /\ Len(ret.result) = 1
       /\ ret.result[1].Success = lastReply[1].Success
       /\ ret.result[1].Failure = lastReply[1].Failure
       /\ ret.result[1].FailedRegistrationIDs = lastReply[1].FailedRegistrationIDs
       /\ ret.result[1].Error = ""

\* with retries = 2 the call returned after one send with Success 1, Failure 1 and
\* the failed id
C12_Witness ==
    /\ PartialSuccessFirst
    /\ pc = "done" /\ retriesArg = 2 /\ sends = 1
    /\ to = <<"group", "/topics/">>
    /\ ret.result[1].Success = 1 /\ ret.result[1].Failure = 1
    /\ ret.result[1].FailedRegistrationIDs = <<"2">>

\* the arguments of the call fail the validation of its operation
InvalidArguments ==
    \/ APIKey = ""
    \/ msg.isNil
    \/ msg.TimeToLive < 0 \/ msg.TimeToLive > 2419200
    \/ op \in {"SendNoRetry", "SendWithRetries"} /\ to = <<>>
    \/ op \in {"SendMulticastNoRetry", "SendMulticastWithRetries"} /\ regIDs = <<>>
    \/ op \in {"SendWithRetries", "SendMulticastWithRetries"} /\ retriesArg < 0

\* C13: each of SendNoRetry, SendWithRetries, SendMulticastNoRetry and
\* SendMulticastWithRetries, called with an empty API key, a nil message, a
\* TimeToLive outside 0..2419200, no target or recipient, or negative retries, makes
\* no transport send and returns an error and a nil result.
C13_InvalidArgumentsRejected ==
    InvalidArguments =>
       /\ sends = 0
       /\ pc \in {"call", "done"}
       /\ pc = "done" => (ret.err # NoError /\ ret.result = <<>>)

\* SendMulticastNoRetry with no recipient has returned the error without a send
C13_Witness ==
    /\ op = "SendMulticastNoRetry" /\ pc = "done"
    /\ APIKey = "key" /\ ~msg.isNil /\ msg.TimeToLive = 0 /\ regIDs = <<>>
    /\ sends = 0
    /\ ret = [result |-> <<>>, err |-> validationError("missing recipient(s)")]

\* the call is one with retries and has passed its argument check
InRetryLoop ==
    /\ op \in {"SendWithRetries", "SendMulticastWithRetries"}
    /\ pc \in {"loop", "sleep"}
\* min(1000 * 2^k, 1024000)
backoffAfter(k) == IF 1000 * (2 ^ k) < 1024000 THEN 1000 * (2 ^ k) ELSE 1024000

\* C14: in one SendWithRetries or SendMulticastWithRetries call the backoff starts at
\* 1000; the k-th sleep, which follows the k-th send, lies in
\* [backoff/2, 3*backoff/2) for backoff = min(1000 * 2^(k-1), 1024000); each sleep
\* ends with backoff = min(2*backoff, 1024000); backoff never decreases and stays
\* within [1000, 1024000].
C14_Backoff ==
    /\ [](InRetryLoop =>
            /\ backoff >= 1000 /\ backoff <= 1024000
            /\ pc = "loop" => backoff = backoffAfter(sends)
            /\ pc = "sleep" =>
                  /\ backoff = backoffAfter(sends - 1)
                  /\ 2 * sleepTime >= backoff
                  /\ 2 * sleepTime < 3 * backoff)
    /\ [][/\ backoff' >= backoff
          /\ (pc = "call" /\ pc' = "loop") => backoff' = 1000
          /\ (InRetryLoop /\ pc = "sleep") =>
                backoff' = (IF 2 * backoff < 1024000 THEN 2 * backoff ELSE 1024000)
          /\ (InRetryLoop /\ pc = "loop") => backoff' = backoff]_vars

\* the twelfth sleep of a SendWithRetries call: the backoff is at its cap and the
\* sleep is the longest the cap allows
C14_Witness ==
    /\ op = "SendWithRetries" /\ pc = "sleep"
    /\ sends = 12
    /\ backoff = 1024000
    /\ sleepTime = 512000 + 1023999

\* C15: in every result SendMulticastWithRetries returns, CanonicalIds <= Success and
\* CanonicalIds is the number of original positions whose final outcome carries both
\* a message id and a canonical registration id.
C15_CanonicalIds ==
    ReturnedResult =>
       /\ ret.result[1].CanonicalIds <= ret.result[1].Success
       /\ ret.result[1].CanonicalIds
             = Cardinality({i \in 1..Len(ret.result[1].Results) :
                              /\ ret.result[1].Results[i].MessageID # ""
                              /\ ret.result[1].Results[i].CanonicalRegistrationID # ""})

\* position 1 delivered with a canonical id, position 2 failed though the response
\* named a registration id for it: one canonical id is counted
C15_Witness ==
    /\ ReturnedResult
    /\ regIDs = <<"1", "2">>
    /\ ret.result[1].Results[1].MessageID # ""
    /\ ret.result[1].Results[1].CanonicalRegistrationID = "canon"
    /\ ret.result[1].Results[2].MessageID = ""
    /\ ret.result[1].Results[2].CanonicalRegistrationID = "canon"
    /\ ret.result[1].CanonicalIds = 1
    /\ ret.result[1].Success = 1

\* C16: concurrent SendMulticastWithRetries / SendWithRetries calls on one Sender
\* share no mutable state: no step of a call changes another call's locals, no two
\* calls are at once about to write the same field of the Sender, and the transport
\* client a call uses is the one it would use alone (the Sender's, or the one it made
\* when the Sender had none).
C16_NoSharedMutableState ==
    /\ [][\A p \in DOMAIN calls :
             calls'[p] # calls[p] =>
                \A q \in DOMAIN calls \ {p} : calls'[q] = calls[q]]_vars
    /\ [](\A p, q \in DOMAIN calls :
             (calls[p].pc = "setClient" /\ calls[q].pc = "setClient") => p = q)
    /\ [](\A p \in DOMAIN calls : calls[p].client \in {"", "client", newClient(p)})


\* the latest round returned a response, no longer than the subset sent, in which no
\* recipient has a retryable error
RoundWithoutRetryable ==
    /\ lastRound # <<>> /\ pc # "panic"
    /\ lastRound[1].reply.err = NoError
    /\ retryablePositions(lastRound[1].sent, lastRound[1].reply.Results) = {}

\* C17: a round of SendMulticastWithRetries that returned a response with no retryable
\* recipient is the call's last: it returns without a sleep or another send, even
\* with budget left.
C17_StopsWithoutRetryable ==
    RoundWithoutRetryable => (ReturnedResult /\ sleepTime = 0)

\* the first round answered both recipients with final outcomes; the call returned
\* after one send with its whole budget of 2 unused
C17_Witness ==
    /\ RoundWithoutRetryable
    /\ ReturnedResult
    /\ regIDs = <<"1", "2">> /\ retriesArg = 2 /\ retries = 2 /\ sends = 1
    /\ ret.result[1].Results[1].MessageID = "id1"
    /\ ret.result[1].Results[2].Error = "InvalidRegistration"

\* C18: when every transport call returns, every call (with retries >= 0, and any
\* other) eventually returns to its caller, whatever the responses are.
C18_EventuallyReturns == <>(pc = "done")

\* the call eventually returns or panics: it makes no infinite sequence of rounds
C18_EventuallyStops == <>(pc \in {"done", "panic"})

\* C19: SendMulticastWithRetries never changes the caller's recipient list or
\* message: no step changes regIDs or msg, so at return the list has the length and
\* the elements it had at the call; and each retry subset is a list the loop built,
\* not the caller's array.
C19_CallerListUntouched ==
    /\ [][regIDs' = regIDs /\ msg' = msg]_vars
    /\ [](op = "SendMulticastWithRetries" =>
            /\ (pc = "sleep" \/ (pc = "loop" /\ sends >= 1)) =>
                  subsetArray = "retryRegIds"
            /\ (pc = "loop" /\ sends = 0) =>
                  (subsetArray = "regIDs" /\ registrationIds = regIDs))

\* after three rounds the subset is the one id still retried, in an array of the
\* loop, and the caller's list is whole
C19_Witness ==
    /\ pc = "done" /\ sends = 3
    /\ regIDs = <<"1", "2">>
    /\ registrationIds = <<"2">>
    /\ subsetArray = "retryRegIds"
    /\ Len(ret.result) = 1 /\ Len(ret.result[1].Results) = 2

\* how often the id occurs in the list
occurrences(id, seq) == Cardinality({i \in 1..Len(seq) : seq[i] = id})
\* each entry of the original list is covered exactly once: the returned result has
\* one outcome per original position, the one on record for its id, counted once
CoveredExactlyOnce ==
    ReturnedResult =>
       /\ Len(ret.result[1].Results) = Len(regIDs)
       /\ ret.result[1].Success + ret.result[1].Failure = Len(regIDs)
       /\ \A i \in 1..Len(regIDs) :
             /\ ret.result[1].Results[i].MessageID
                   = recordedOutcome(regIDs[i]).MessageID
             /\ ret.result[1].Results[i].Error = recordedOutcome(regIDs[i]).Err

\* C20 as stated: no identifier occurs twice in the subset sent in any round, and each
\* entry of the original list is covered exactly once by a succeeded or a last-known
\* outcome.
C20_Original ==
    /\ \A id \in idsOf(registrationIds) : occurrences(id, registrationIds) = 1
    /\ CoveredExactlyOnce

\* C20 as amended: an identifier occurs in the subset sent in a round at most as often
\* as in the original list (so never twice when the original list has no duplicate),
\* and each entry of the original list is covered exactly once by a succeeded or a
\* last-known outcome.
C20_SubsetWithinOriginal ==
    /\ \A id \in idsOf(registrationIds) :
          occurrences(id, registrationIds) <= occurrences(id, regIDs)
    /\ lastRound # <<>> =>
          \A id \in idsOf(lastRound[1].sent) :
             occurrences(id, lastRound[1].sent) <= occurrences(id, regIDs)
    /\ CoveredExactlyOnce

\* the second round was sent to ["1", "2"] again, each id once, and the call
\* returned one outcome for each of the two entries
C20_Witness ==
    /\ ReturnedResult /\ sends = 2
    /\ regIDs = <<"1", "2">>
    /\ lastRound[1].sent = <<"1", "2">>
    /\ Len(ret.result[1].Results) = 2

\* the original list holds the same id at two positions or more
HasDuplicate == \E i, j \in 1..Len(regIDs) : i # j /\ regIDs[i] = regIDs[j]

\* C21: with an id at several positions of the original list, the map holds one entry
\* for it, the outcome written last (by position within a round, and by round);
\* reconciliation gives every position of that id that outcome, and counts each
\* position on its own in Success / Failure.
C21_DuplicatesCollapse ==
    (HasDuplicate /\ op = "SendMulticastWithRetries" /\ pc # "panic") =>
       /\ DOMAIN results = DOMAIN recorded
       /\ \A id \in DOMAIN results : results[id] = recorded[id]
       /\ ReturnedResult =>
             /\ \A i, j \in 1..Len(regIDs) :
                   regIDs[i] = regIDs[j] =>
                      /\ ret.result[1].Results[i] = ret.result[1].Results[j]
                      /\ ret.result[1].Results[i].MessageID
                            = mapGet(results, regIDs[i]).MessageID
                      /\ ret.result[1].Results[i].Error = mapGet(results, regIDs[i]).Err
             /\ ret.result[1].Success
                   = Cardinality({i \in 1..Len(regIDs) :
                                    mapGet(results, regIDs[i]).MessageID # ""})
             /\ ret.result[1].Failure
                   = Cardinality({i \in 1..Len(regIDs) :
                                    mapGet(results, regIDs[i]).MessageID = ""})

\* ["2", "2"] answered [Unavailable, delivered] with no budget: the map holds the
\* delivery, written last, and both positions report it, counted twice
C21_Witness ==
    /\ ReturnedResult /\ sends = 1
    /\ regIDs = <<"2", "2">>
    /\ lastRound[1].reply.Results = <<result("", "", "Unavailable"), result("id1", "", "")>>
    /\ DOMAIN results = {"2"}
    /\ results["2"] = result("id1", "", "")
    /\ ret.result[1].Success = 2
    /\ ret.result[1].Results[1] = ret.result[1].Results[2]

\* the id is not 0
NonZero(id) == id # 0

\* C22: in the result of SendMulticastWithRetries, MulticastID is the call identifier
\* round 1 returned (0 if it returned no response or no identifier) and
\* RetryMulticastIDs is the sequence, in round order, of the non-zero identifiers
\* rounds 2 and later returned; it has at most retries entries.
C22_MulticastIDs ==
    ReturnedResult =>
       /\ Len(roundIDs) = sends /\ sends >= 1
       /\ ret.result[1].MulticastID = roundIDs[1]
       /\ ret.result[1].RetryMulticastIDs = SelectSeq(Tail(roundIDs), NonZero)
       /\ Len(ret.result[1].RetryMulticastIDs) <= retriesArg

\* round 1 failed with a 5xx status and round 2 returned identifier 2: MulticastID
\* is 0 and RetryMulticastIDs is [2]
C22_Witness ==
    /\ ReturnedResult
    /\ roundIDs = <<0, 2>>
    /\ results # <<>>
    /\ retriesArg = 1
    /\ lastRound[1].sent = regIDs
    /\ ret.result[1].MulticastID = 0
    /\ ret.result[1].RetryMulticastIDs = <<2>>

\* what SendNoRetry returns for the reply to the latest attempt
lastPair ==
    \E r \in {SendNoRetry(APIKey, msg, to, lastReply[1])} :
       ret = [result |-> r.result, err |-> r.err]

\* C23: SendWithRetries returns exactly the pair (result, error) of its final
\* attempt, and exactly one of the two is non-nil; when the last attempt the budget
\* allows fails with a 5xx status the call returns a nil result and that HTTP error,
\* even if an earlier attempt returned a result.
C23_ReturnsLastPair ==
    (pc = "done" /\ op = "SendWithRetries") =>
       /\ (ret.result = <<>>) # (ret.err = NoError)
       /\ Len(ret.result) <= 1
       /\ attempt >= 1 => (lastReply # <<>> /\ lastPair)
       /\ (attempt = retriesArg + 1 /\ lastReply # <<>> /\ Is5xx(lastReply[1].err)) =>
             (ret.result = <<>> /\ ret.err = lastReply[1].err)

\* retries = 1: the first attempt returned a result with Unavailable, the second
\* failed with status 500; the call has returned nil and the HTTP error
C23_Witness ==
    /\ pc = "done" /\ op = "SendWithRetries"
    /\ retriesArg = 1 /\ attempt = 2 /\ sends = 2
    /\ obtained
    /\ lastReply = <<failed(httpError(500))>>
    /\ ret = [result |-> <<>>, err |-> httpError(500)]

\* C25: the sum of all sleeps of one SendWithRetries call is at most
\* retries x MaxBackoffDelay milliseconds, for every retries >= 0.
C25_TotalSleepBounded ==
    (slept # <<>> /\ retriesArg >= 0) => slept[1] <= retriesArg * MaxBackoffDelay

\* the call has ended after at least one round, no round returned a response, and
\* the first round did not fail with a failure that is not a 5xx status: with one
\* round sent that round failed with a 5xx status; a call goes on to a second round
\* without a response only after a first round that failed with a 5xx status
EndedWithoutResponse ==
    /\ pc = "done" /\ op = "SendMulticastWithRetries"
    /\ sends >= 1 /\ ~responded
    /\ sends = 1 => Is5xx(lastRound[1].reply.err)

C26_WitnessNoBudget ==
    /\ EndedWithoutResponse
    /\ retriesArg = 0 /\ sends = 1
    /\ lastRound[1].reply.err = httpError(599)
    /\ ret.err = NoError /\ ret.result[1].Failure = Len(regIDs)

\* the outcome is delivered (it has a message id) or carries an error code that is
\* not retried
IsFinalOutcome(r) ==
    r.MessageID # "" \/ r.Err \notin {"", ErrorUnavailable, ErrorInternalServerError}
\* the ids the map holds with a delivered outcome
deliveredIds(m) == {id \in DOMAIN m : m[id].MessageID # ""}

\* C27: when the original list has no duplicate id, an outcome that is delivered or a
\* terminal error code is final: its id is in no later round's subset, its map entry
\* is never overwritten, and it is the outcome the call returns for the id; the set
\* of ids with a delivered outcome only grows.
C27_FinalOutcomesStay ==
    /\ []((~HasDuplicate /\ op = "SendMulticastWithRetries"
              /\ pc \in {"loop", "sleep"}) =>
             \A id \in DOMAIN results :
                IsFinalOutcome(results[id]) => id \notin idsOf(registrationIds))
    /\ [][(~HasDuplicate /\ op = "SendMulticastWithRetries") =>
             /\ \A id \in DOMAIN results :
                   IsFinalOutcome(results[id]) =>
                      /\ id \in DOMAIN results' /\ results'[id] = results[id]
                      /\ (pc' = "done" /\ ret'.err = NoError) =>
                            \A i \in 1..Len(regIDs) :
                               regIDs[i] = id =>
                                  ret'.result[1].Results[i]
                                     = Result(results[id].MessageID,
                                              results[id].RegistrationID,
                                              results[id].Err)
             /\ deliveredIds(results) \subseteq deliveredIds(results')]_vars

\* ["1","2"] answered [delivered, Unavailable] in round 1 and "2" alone answered
\* delivered in round 2, every response with one outcome per recipient sent: "1"
\* kept its outcome of round 1
C27_Witness ==
    /\ ReturnedResult /\ sends = 2
    /\ regIDs = <<"1", "2">>
    /\ lastRound[1].sent = <<"2">>
    /\ lastRound[1].reply.err = NoError
    /\ lastRound[1].reply.Results = <<result("id2", "", "")>>
    /\ results["1"] = result("id1", "", "")
    /\ ret.result[1].Results = <<Result("id1", "", ""), Result("id2", "", "")>>

\* the map's entry for an id, the empty outcome when it has none
entryOf(m, id) == IF id \in DOMAIN m THEN m[id] ELSE ZeroResult
\* this step is a round whose response carries fewer outcomes than recipients sent
ShortResponseRound ==
    /\ pc = "loop" /\ op = "SendMulticastWithRetries" /\ sends' = sends + 1
    /\ lastRound'[1].reply.err = NoError
    /\ Len(lastRound'[1].reply.Results) < Len(registrationIds)
\* the ids sent in this round at the positions the response covers
coveredIds == {registrationIds[i] : i \in 1..Len(lastRound'[1].reply.Results)}
\* the ids sent in this round at the positions beyond the response's length
uncoveredIds ==
    {registrationIds[i] :
        i \in (Len(lastRound'[1].reply.Results) + 1)..Len(registrationIds)}
\* the step leaves the id out of the next subset and its map entry as it was, and a
\* step that returns gives that entry as the outcome at the id's positions
DroppedAndKept(id) ==
    /\ pc' = "sleep" => id \notin idsOf(registrationIds')
    /\ entryOf(results', id) = entryOf(results, id)
    /\ pc' = "done" =>
          \A i \in 1..Len(regIDs) :
             regIDs[i] = id =>
                ret'.result[1].Results[i]
                   = Result(entryOf(results, id).MessageID,
                            entryOf(results, id).RegistrationID,
                            entryOf(results, id).Err)
\* a round with a short response goes on to the sleep or returns a nil error and one
\* outcome per entry of the original list
ShortRoundGoesOn ==
    /\ pc' \in {"sleep", "done"}
    /\ pc' = "done" =>
          /\ ret'.err = NoError /\ Len(ret'.result) = 1
          /\ Len(ret'.result[1].Results) = Len(regIDs)
\* an id that is not in the subset never comes back into it, and a round does not
\* touch the map entry of an id it does not send
OutsideStaysOutside ==
    (op = "SendMulticastWithRetries" /\ pc \in {"loop", "sleep"}) =>
       /\ pc' = "sleep" => idsOf(registrationIds') \subseteq idsOf(registrationIds)
       /\ pc' = "loop" => registrationIds' = registrationIds
       /\ \A id \in RegIDs \ idsOf(registrationIds) :
             entryOf(results', id) = entryOf(results, id)
       /\ (pc' = "done" /\ ret'.err = NoError) =>
             /\ Len(ret'.result) = 1
             /\ Len(ret'.result[1].Results) = Len(regIDs)
             /\ \A i \in 1..Len(regIDs) :
                   ret'.result[1].Results[i]
                      = Result(entryOf(results', regIDs[i]).MessageID,
                               entryOf(results', regIDs[i]).RegistrationID,
                               entryOf(results', regIDs[i]).Err)

\* C28 as stated: after a round whose response has fewer outcomes than recipients
\* sent, every recipient beyond the response's length is in no later subset and
\* keeps the outcome recorded before (or the empty outcome), and the call returns a
\* nil error with len(Results) = len(regIDs).
C28_UncoveredAreDropped ==
    [][/\ ShortResponseRound =>
            (ShortRoundGoesOn /\ \A id \in uncoveredIds : DroppedAndKept(id))
       /\ OutsideStaysOutside]_vars

\* C28, amended: the same for every recipient beyond the response's length whose id
\* is not also at a position the response covers.
C28_UncoveredOnlyAreDropped ==
    [][/\ ShortResponseRound =>
            (ShortRoundGoesOn
                /\ \A id \in uncoveredIds \ coveredIds : DroppedAndKept(id))
       /\ OutsideStaysOutside]_vars

\* ["1","2"] answered with the one outcome Unavailable in round 1: round 2 sent "1"
\* alone, and the call has returned the empty outcome, a failure, for "2"
C28_Witness ==
    /\ ReturnedResult /\ sends = 2
    /\ regIDs = <<"1", "2">>
    /\ lastRound[1].sent = <<"1">>
    /\ lastRound[1].reply.err = NoError
    /\ lastRound[1].reply.Results = <<result("id2", "", "")>>
    /\ DOMAIN results = {"1"}
    /\ ret.result[1].Success = 1 /\ ret.result[1].Failure = 1
    /\ ret.result[1].Results = <<Result("id2", "", ""), Result("", "", "")>>

\* a response to ["1","2"] with no results at all: the call has returned two empty
\* outcomes after one round
C28_WitnessNoResults ==
    /\ ReturnedResult /\ sends = 1 /\ retriesArg >= 1
    /\ lastRound[1].sent = <<"1", "2">>
    /\ lastRound[1].reply.err = NoError
    /\ lastRound[1].reply.Results = <<>>
    /\ ret.result[1].Failure = 2

====
